---- MODULE Spec2Model ----
(***************************************************************************)
(* osm2rdf: the parse pipeline of src/src/parser.rs.                       *)
(*                                                                         *)
(*   parse            starts the gz_writer thread, opens the reader and    *)
(*                    the node cache, runs parse_with_cache, saves the     *)
(*                    cache and joins the writer;                          *)
(*   parse_with_cache one rayon task per blob: a Parser per data block,    *)
(*                    parse_block sends one Statement per element;         *)
(*   gz_writer        receives Statements, writes Creates to rotating      *)
(*                    osm-NNNNNN.ttl.gz files and a trailer at the end;    *)
(*   Stats::combine   the merge of a Parser's counters on Drop.            *)
(*                                                                         *)
(* Text is modelled as sequences: a key or a value is a sequence of        *)
(* one-character strings, a StringBuf is a sequence of lines, a line is    *)
(* <<predicate, object, end>> with end ";" or ".".  The length of a        *)
(* StringBuf (String::len, bytes in the code) is counted in lines.         *)
(***************************************************************************)
EXTENDS Integers, Sequences, FiniteSets, TLC

\* ------------------------------------------------------------------ bounds
\* Data blobs the reader yields at most.
MaxBlocks == 2
\* Elements one block holds at most.
MaxElems == 2
\* The largest rotation threshold (in lines) the run is configured with.
MaxThreshold == 12
\* The largest counter of a Stats value handed to combine.
MaxCount == 2

\* Tags one element carries at most.
MaxTags == 2
\* Identifiers a multi-value wikidata tag lists at most.
MaxIds == 3

\* Statements a batching worker produces for a group at most, and the
\* largest batch threshold it is configured with.
MaxProduced == 3
MaxBatch == 1

\* ------------------------------------------------------------- characters
Lower == {"a", "b", "c", "d", "e", "f", "g", "h", "i", "j", "k", "l", "m",
          "n", "o", "p", "q", "r", "s", "t", "u", "v", "w", "x", "y", "z"}
Upper == {"A", "B", "C", "D", "E", "F", "G", "H", "I", "J", "K", "L", "M",
          "N", "O", "P", "Q", "R", "S", "T", "U", "V", "W", "X", "Y", "Z"}
Digits == {"0", "1", "2", "3", "4", "5", "6", "7", "8", "9"}
\* [0-9a-zA-Z_]
EdgeChars == Lower \cup Upper \cup Digits \cup {"_"}
\* [-:0-9a-zA-Z_]
InnerChars == EdgeChars \cup {"-", ":"}

\* RE_SIMPLE_LOCAL_NAME: ^[0-9a-zA-Z_]([-:0-9a-zA-Z_]{0,58}[0-9a-zA-Z_])?$
RE_SIMPLE_LOCAL_NAME(key) ==
    /\ Len(key) >= 1
    /\ Len(key) <= 60
    /\ key[1] \in EdgeChars
    /\ key[Len(key)] \in EdgeChars
    /\ \A i \in 1..Len(key) : key[i] \in InnerChars

\* str::contains: needle occurs as a contiguous run of hay.
Contains(hay, needle) ==
    \E i \in 0..(Len(hay) - Len(needle)) :
        \A j \in 1..Len(needle) : hay[i + j] = needle[j]

CREATED_BY == <<"c", "r", "e", "a", "t", "e", "d", "_", "b", "y">>
WIKIDATA == <<"w", "i", "k", "i", "d", "a", "t", "a">>

\* RE_WIKIDATA_VALUE: ^Q[1-9][0-9]{0,18}$
RE_WIKIDATA_VALUE(val) ==
    /\ Len(val) >= 2
    /\ Len(val) <= 20
    /\ val[1] = "Q"
    /\ val[2] \in (Digits \ {"0"})
    /\ \A i \in 3..Len(val) : val[i] \in Digits

\* ------------------------------------------------------------- timestamps
\* Rust's i64 division and remainder truncate toward zero.
TruncDiv(a, b) == IF a >= 0 THEN a \div b ELSE -((-a) \div b)
TruncRem(a, b) == a - b * TruncDiv(a, b)

\* to_utc: Utc.timestamp_opt(ms / 1000, (ms % 1000) as u32).unwrap().
\* A negative remainder cast to u32 is no valid nanosecond count: the
\* LocalResult is None and the unwrap panics.
ToUtcPanics(milli_timestamp) == TruncRem(milli_timestamp, 1000) < 0
to_utc(milli_timestamp) ==
    [secs |-> TruncDiv(milli_timestamp, 1000),
     nanos |-> TruncRem(milli_timestamp, 1000)]

\* --------------------------------------------------------------- literals
\* Display of Element: the namespace prefix of the element header line.
ElementPrefix(elem) ==
    CASE elem = "Node" -> "osmnode"
      [] elem = "Way" -> "osmway"
      [] elem = "Relation" -> "osmrel"

\* Mutant of XsdPoint: the latitude is written first.
XsdPoint_LatFirst(lat, lon) ==
    <<"\"Point(", ToString(lat), " ", ToString(lon), ")\"^^geo:wktLiteral">>

\* XsdPoint: "Point({lon} {lat})"^^geo:wktLiteral
XsdPoint(lat, lon) ==
    <<"\"Point(", ToString(lon), " ", ToString(lat), ")\"^^geo:wktLiteral">>

\* XsdElement: "n", "w" or "r" in quotes.
XsdElement(elem) ==
    CASE elem = "Node" -> <<"\"", "n", "\"">>
      [] elem = "Way" -> <<"\"", "w", "\"">>
      [] elem = "Relation" -> <<"\"", "r", "\"">>

\* XsdBoolean
XsdBoolean(b) == <<"\"", IF b THEN "true" ELSE "false", "\"^^xsd:boolean">>

\* XsdInteger
XsdInteger(n) == <<"\"", ToString(n), "\"^^xsd:integer">>

\* XsdDateTime: to_utc of the millisecond value, as xsd:dateTime; the instant
\* is written as its whole seconds and its nanoseconds.
XsdDateTime(ms) ==
    <<"\"", ToString(to_utc(ms).secs), "s", ToString(to_utc(ms).nanos), "ns",
      "\"^^xsd:dateTime">>

\* XsdStr: the JSON dump of the string, quotes and backslashes escaped.
RECURSIVE JsonEscape(_)
JsonEscape(s) ==
    IF s = <<>> THEN <<>>
    ELSE (IF Head(s) \in {"\"", "\\"} THEN <<"\\", Head(s)>> ELSE <<Head(s)>>)
         \o JsonEscape(Tail(s))
XsdStr(s) == <<"\"">> \o JsonEscape(s) \o <<"\"">>

\* XsdRaw: {prefix}:{name}
XsdRaw(prefix, name) == <<prefix, ":">> \o name

\* XsdRelMember: osmnode:, osmway: or osmrel: and the member id.
XsdRelMember(mbr) ==
    <<ElementPrefix(mbr.member_type), ":", ToString(mbr.member_id)>>

\* Mutant of XsdIter: the separator is written before every item, the first
\* included.
RECURSIVE XsdIter_LeadingComma(_)
XsdIter_LeadingComma(items) ==
    IF items = <<>> THEN <<>>
    ELSE <<",">> \o Head(items) \o XsdIter_LeadingComma(Tail(items))

\* XsdIter: the items joined by ",".
RECURSIVE XsdIter(_)
XsdIter(items) ==
    IF items = <<>> THEN <<>>
    ELSE IF Len(items) = 1 THEN Head(items)
    ELSE Head(items) \o <<",">> \o XsdIter(Tail(items))

\* -------------------------------------------------------------- StringBuf
\* A StringBuf is the sequence of the lines written to it.
\* StringBuf::new
NewBuf == <<>>
\* StringBuf::is_empty
IsEmpty(buf) == buf = <<>>
\* val.len(): the size the writer adds to its counter, in lines.
BufLen(buf) == Len(buf)

\* push_value: one clause "{predicate} {value};" on a line of its own.
PushValue(buf, predicate, value) ==
    Append(buf, [pred |-> predicate, obj |-> value, end |-> ";"])

\* push_metadata: version, user (left out when there is none), timestamp and
\* changeset; the last clause ends the block with "." in place of ";".
PushMetadata(buf, version, user, ts, changeset) ==
    LET b1 == PushValue(buf, <<"osmm:version">>, XsdInteger(version))
        b2 == IF user = <<>> THEN b1
              ELSE PushValue(b1, <<"osmm:user">>, XsdStr(user))
        b3 == PushValue(b2, <<"osmm:timestamp">>, XsdDateTime(ts))
    IN  Append(b3, [pred |-> <<"osmm:changeset">>,
                    obj |-> XsdInteger(changeset), end |-> "."])

\* ------------------------------------------------------------------- tags
\* str::split(c): the pieces between the occurrences of c.
RECURSIVE SplitAcc(_, _, _)
SplitAcc(s, c, cur) ==
    IF s = <<>> THEN <<cur>>
    ELSE IF Head(s) = c THEN <<cur>> \o SplitAcc(Tail(s), c, <<>>)
    ELSE SplitAcc(Tail(s), c, Append(cur, Head(s)))
Split(s, c) == SplitAcc(s, c, <<>>)

\* str::trim: leading and trailing white space removed.
RECURSIVE TrimStart(_)
TrimStart(s) ==
    IF s # <<>> /\ Head(s) = " " THEN TrimStart(Tail(s)) ELSE s
RECURSIVE TrimEnd(_)
TrimEnd(s) ==
    IF s # <<>> /\ s[Len(s)] = " " THEN TrimEnd(SubSeq(s, 1, Len(s) - 1)) ELSE s
Trim(s) == TrimEnd(TrimStart(s))

\* RE_WIKIDATA_MULTI_VALUE: ^Q[1-9][0-9]{0,18}(\s*;\s*Q[1-9][0-9]{0,18})+$
RE_WIKIDATA_MULTI_VALUE(val) ==
    LET parts == Split(val, ";")
    IN  /\ Len(parts) >= 2
        /\ \A i \in 1..Len(parts) : RE_WIKIDATA_VALUE(Trim(parts[i]))
        /\ TrimStart(parts[1]) = parts[1]
        /\ TrimEnd(parts[Len(parts)]) = parts[Len(parts)]

\* val.split(';').map(|v| XsdRaw("wd", v.trim()))
WikidataItems(val) ==
    LET parts == Split(val, ";")
    IN  [i \in 1..Len(parts) |-> XsdRaw("wd", Trim(parts[i]))]

WIKIPEDIA == <<"w", "i", "k", "i", "p", "e", "d", "i", "a">>

\* The index of the first ":" of s, 0 when there is none.
FirstColon(s) ==
    IF \E i \in 1..Len(s) : s[i] = ":"
    THEN CHOOSE i \in 1..Len(s) : s[i] = ":" /\ \A j \in 1..(i - 1) : s[j] # ":"
    ELSE 0

\* RE_WIKIPEDIA_VALUE: ^([-a-z]+):(.+)$
RE_WIKIPEDIA_VALUE(val) ==
    LET c == FirstColon(val)
    IN  /\ c >= 2
        /\ c < Len(val)
        /\ \A i \in 1..(c - 1) : val[i] \in (Lower \cup {"-"})

\* PERCENT_ENC_SET: the characters utf8_percent_encode replaces by %XX.
PERCENT_ENC_SET == {";", "@", "$", "!", "*", "(", ")", ",", "/", "~", ":", "#"}
PercentCode(c) ==
    CASE c = ";" -> "%3B" [] c = "@" -> "%40" [] c = "$" -> "%24"
      [] c = "!" -> "%21" [] c = "*" -> "%2A" [] c = "(" -> "%28"
      [] c = ")" -> "%29" [] c = "," -> "%2C" [] c = "/" -> "%2F"
      [] c = "~" -> "%7E" [] c = ":" -> "%3A" [] c = "#" -> "%23"

\* title.replace(' ', "_") and then utf8_percent_encode(title, PERCENT_ENC_SET)
EncodeTitle(title) ==
    [i \in 1..Len(title) |->
        IF title[i] = " " THEN "_"
        ELSE IF title[i] \in PERCENT_ENC_SET THEN PercentCode(title[i])
        ELSE title[i]]

\* XsdWikipedia: <https://{lang}.wikipedia.org/wiki/{title}>
XsdWikipedia(lang, title) ==
    <<"<https://">> \o lang \o <<".wikipedia.org/wiki/">> \o title \o <<">">>

\* The clause push_all_tags writes for one tag; <<>> for a tag it skips.
PushTag(value, key, val) ==
    IF key = CREATED_BY THEN value
    ELSE IF ~RE_SIMPLE_LOCAL_NAME(key)
    THEN PushValue(value, <<"osmm:badkey">>, XsdStr(val))
    ELSE IF Contains(key, WIKIDATA) /\ RE_WIKIDATA_VALUE(val)
    THEN PushValue(value, XsdRaw("osmt", key), XsdRaw("wd", val))
    ELSE IF Contains(key, WIKIDATA) /\ RE_WIKIDATA_MULTI_VALUE(val)
    THEN PushValue(value, XsdRaw("osmt", key), XsdIter(WikidataItems(val)))
    ELSE IF ~Contains(key, WIKIDATA) /\ Contains(key, WIKIPEDIA)
            /\ RE_WIKIPEDIA_VALUE(val)
    THEN PushValue(value, XsdRaw("osmt", key),
                   XsdWikipedia(SubSeq(val, 1, FirstColon(val) - 1),
                                EncodeTitle(SubSeq(val, FirstColon(val) + 1, Len(val)))))
    ELSE PushValue(value, XsdRaw("osmt", key), XsdStr(val))

\* Parser::push_all_tags: the tags in their order.
RECURSIVE push_all_tags(_, _)
push_all_tags(value, tags) ==
    IF tags = <<>> THEN value
    ELSE push_all_tags(PushTag(value, Head(tags)[1], Head(tags)[2]), Tail(tags))

\* StringBuf::add_value: one clause "{predicate} {value};" on a line of its own.
add_value(buf, predicate, value) ==
    Append(buf, [pred |-> predicate, obj |-> value, end |-> ";"])

\* The clause StringBuf::add_tags writes for one tag.
AddTag(self, key, val) ==
    IF key = CREATED_BY THEN self
    ELSE IF ~RE_SIMPLE_LOCAL_NAME(key)
    THEN add_value(self, <<"osmm:badkey">>, XsdStr(key))
    ELSE IF Contains(key, WIKIDATA) /\ RE_WIKIDATA_VALUE(val)
    THEN add_value(self, XsdRaw("osmt", key), XsdRaw("wd", val))
    ELSE IF Contains(key, WIKIDATA) /\ RE_WIKIDATA_MULTI_VALUE(val)
    THEN add_value(self, XsdRaw("osmt", key), XsdIter(WikidataItems(val)))
    ELSE IF ~Contains(key, WIKIDATA) /\ Contains(key, WIKIPEDIA)
            /\ RE_WIKIPEDIA_VALUE(val)
    THEN add_value(self, XsdRaw("osmt", key),
                   XsdWikipedia(SubSeq(val, 1, FirstColon(val) - 1),
                                EncodeTitle(SubSeq(val, FirstColon(val) + 1, Len(val)))))
    ELSE add_value(self, XsdRaw("osmt", key), XsdStr(val))

\* StringBuf::add_tags: the tags in their order.
RECURSIVE add_tags(_, _)
add_tags(self, tags) ==
    IF tags = <<>> THEN self
    ELSE add_tags(AddTag(self, Head(tags)[1], Head(tags)[2]), Tail(tags))

\* ------------------------------------------------------------------ Stats
StatsDefault ==
    [added_nodes |-> 0, added_rels |-> 0, added_ways |-> 0, skipped_nodes |-> 0,
     deleted_nodes |-> 0, deleted_rels |-> 0, deleted_ways |-> 0, blocks |-> 0]

\* Mutant of combine: the ways are added to the relations and the relations
\* to the ways.
combine_SwapsWaysRels(self, other) ==
    [added_nodes |-> self.added_nodes + other.added_nodes,
     added_rels |-> self.added_rels + other.added_ways,
     added_ways |-> self.added_ways + other.added_rels,
     skipped_nodes |-> self.skipped_nodes + other.skipped_nodes,
     deleted_nodes |-> self.deleted_nodes + other.deleted_nodes,
     deleted_rels |-> self.deleted_rels + other.deleted_rels,
     deleted_ways |-> self.deleted_ways + other.deleted_ways,
     blocks |-> self.blocks + 1]

\* Stats::combine
combine(self, other) ==
    [added_nodes |-> self.added_nodes + other.added_nodes,
     added_rels |-> self.added_rels + other.added_rels,
     added_ways |-> self.added_ways + other.added_ways,
     skipped_nodes |-> self.skipped_nodes + other.skipped_nodes,
     deleted_nodes |-> self.deleted_nodes + other.deleted_nodes,
     deleted_rels |-> self.deleted_rels + other.deleted_rels,
     deleted_ways |-> self.deleted_ways + other.deleted_ways,
     blocks |-> self.blocks + 1]

\* -------------------------------------------------------------- Statement
Skip == [type |-> "Skip", elem |-> "None", id |-> 0, ts |-> 0, val |-> <<>>]
Delete(elem, id) ==
    [type |-> "Delete", elem |-> elem, id |-> id, ts |-> 0, val |-> <<>>]
Create(elem, id, val, ts) ==
    [type |-> "Create", elem |-> elem, id |-> id, ts |-> ts, val |-> val]
\* What a handler leaves when it panics instead of returning a Statement.
Panicked == [type |-> "Panic", elem |-> "None", id |-> 0, ts |-> 0, val |-> <<>>]

\* ----------------------------------------------------------------- Parser
\* A Parser is [stats, cache]; a handler returns the Statement (or Panicked)
\* and the Parser it leaves: [st, stats, cache].
Outcome(st, stats, cache) == [st |-> st, stats |-> stats, cache |-> cache]

\* Cache::set_lat_lon
set_lat_lon(cache, id, lat, lon) == [cache EXCEPT ![id] = <<lat, lon>>]
\* Cache::get_lat_lon
get_lat_lon(cache, id) == cache[id]

\* Mutant of process_node: the coordinates are cached only for a node that
\* is emitted.
process_node_CachesOnlyCreated(stats, cache, is_deleted, id, tags, lat, lon) ==
    IF is_deleted
    THEN Outcome(Delete("Node", id),
                 [stats EXCEPT !.deleted_nodes = @ + 1], cache)
    ELSE LET value == push_all_tags(NewBuf, tags)
         IN  IF IsEmpty(value)
             THEN Outcome(Skip, [stats EXCEPT !.skipped_nodes = @ + 1], cache)
             ELSE Outcome(
                      Create("Node", id,
                             PushValue(PushValue(value, <<"osmm:loc">>, XsdPoint(lat, lon)),
                                       <<"osmm:type">>, XsdElement("Node")),
                             0),
                      [stats EXCEPT !.added_nodes = @ + 1],
                      set_lat_lon(cache, id, lat, lon))

\* Parser::process_node
process_node(stats, cache, is_deleted, id, tags, lat, lon) ==
    IF is_deleted
    THEN Outcome(Delete("Node", id),
                 [stats EXCEPT !.deleted_nodes = @ + 1], cache)
    ELSE LET cache2 == set_lat_lon(cache, id, lat, lon)
             value == push_all_tags(NewBuf, tags)
         IN  IF IsEmpty(value)
             THEN Outcome(Skip, [stats EXCEPT !.skipped_nodes = @ + 1], cache2)
             ELSE Outcome(
                      Create("Node", id,
                             PushValue(PushValue(value, <<"osmm:loc">>, XsdPoint(lat, lon)),
                                       <<"osmm:type">>, XsdElement("Node")),
                             0),
                      [stats EXCEPT !.added_nodes = @ + 1], cache2)

\* Info::user().unwrap().unwrap() panics on an element without a user, and
\* the timestamp clause panics in to_utc.
PushInfoPanics(info) == ~info.has_user \/ ToUtcPanics(info.milli_timestamp)

\* Parser::push_info: the metadata clauses; returns the buffer, the
\* timestamp it returns being info.milli_timestamp.
push_info(value, info) ==
    PushMetadata(value, info.version, info.user, info.milli_timestamp, info.changeset)

\* Parser::on_node
on_node(stats, cache, node) ==
    LET r == process_node(stats, cache, node.info.deleted, node.id, node.tags,
                          node.lat, node.lon)
    IN  IF r.st.type # "Create" THEN r
        ELSE IF PushInfoPanics(node.info) THEN Outcome(Panicked, r.stats, r.cache)
        ELSE Outcome(Create(r.st.elem, r.st.id, push_info(r.st.val, node.info),
                            node.info.milli_timestamp),
                     r.stats, r.cache)

\* Parser::on_dense_node
on_dense_node(stats, cache, node) ==
    LET r == process_node(stats, cache, node.info.deleted, node.id, node.tags,
                          node.lat, node.lon)
    IN  IF r.st.type # "Create" THEN r
        ELSE IF ToUtcPanics(node.info.milli_timestamp)
        THEN Outcome(Panicked, r.stats, r.cache)
        ELSE Outcome(Create(r.st.elem, r.st.id,
                            PushMetadata(r.st.val, node.info.version, node.info.user,
                                         node.info.milli_timestamp, node.info.changeset),
                            r.st.ts),
                     r.stats, r.cache)

\* --------------------------------------------------------------- geometry
\* The geometry kernel (geos), at its interface: a line string needs zero or
\* at least two points; it is closed when its first and last points agree;
\* the point on its surface is one of its points.
CreateLineStringFails(coords) == Len(coords) = 1
IsClosed(coords) == coords[1] = coords[Len(coords)]
PointOnSurface(coords) == coords[(Len(coords) + 1) \div 2]

\* Parser::parse_way_geometry: the coordinate pairs are [lat, lng], so x is
\* the latitude and y the longitude; lat is then read from y and lon from x.
parse_way_geometry(cache, value, way) ==
    LET refs == [i \in 1..Len(way.refs) |-> get_lat_lon(cache, way.refs[i])]
    IN  IF CreateLineStringFails(refs)
        THEN [ok |-> FALSE, value |-> value]
        ELSE LET g == PointOnSurface(refs)
                 lat == g[2]
                 lon == g[1]
             IN  [ok |-> TRUE,
                  value |-> PushValue(
                      PushValue(value, <<"osmm:isClosed">>, XsdBoolean(IsClosed(refs))),
                      <<"osmm:loc">>, XsdPoint(lat, lon))]

\* Mutant of on_way: the handler gives up on a way one of whose nodes has no
\* coordinates in the cache yet.
on_way_NeedsWrittenNodes(stats, cache, way) ==
    IF way.info.deleted
    THEN Outcome(Delete("Way", way.id), [stats EXCEPT !.deleted_ways = @ + 1], cache)
    ELSE IF PushInfoPanics(way.info) THEN Outcome(Panicked, stats, cache)
    ELSE IF \E i \in 1..Len(way.refs) : get_lat_lon(cache, way.refs[i]) = <<0, 0>>
    THEN Outcome(Panicked, stats, cache)
    ELSE LET v1 == PushValue(push_all_tags(NewBuf, way.tags),
                             <<"osmm:type">>, XsdElement("Way"))
             v2 == push_info(v1, way.info)
             geo == parse_way_geometry(cache, v2, way)
         IN  Outcome(Create("Way", way.id, geo.value, way.info.milli_timestamp),
                     [stats EXCEPT !.added_ways = @ + 1], cache)

\* Parser::on_way
on_way(stats, cache, way) ==
    IF way.info.deleted
    THEN Outcome(Delete("Way", way.id), [stats EXCEPT !.deleted_ways = @ + 1], cache)
    ELSE IF PushInfoPanics(way.info) THEN Outcome(Panicked, stats, cache)
    ELSE LET v1 == PushValue(push_all_tags(NewBuf, way.tags),
                             <<"osmm:type">>, XsdElement("Way"))
             v2 == push_info(v1, way.info)
             geo == parse_way_geometry(cache, v2, way)
             v3 == IF geo.ok THEN geo.value
                   ELSE PushValue(geo.value, <<"osmm:loc:error">>,
                                  XsdStr(<<"geos error">>))
         IN  Outcome(Create("Way", way.id, v3, way.info.milli_timestamp),
                     [stats EXCEPT !.added_ways = @ + 1], cache)

\* The two clauses on_relation writes for each member, in their order.
RECURSIVE PushMembers(_, _)
PushMembers(value, members) ==
    IF members = <<>> THEN value
    ELSE PushMembers(
             PushValue(PushValue(value, <<"osmm:has">>, XsdRelMember(Head(members))),
                       XsdRelMember(Head(members)), XsdStr(Head(members).role)),
             Tail(members))

\* Parser::on_relation
on_relation(stats, cache, rel) ==
    IF rel.info.deleted
    THEN Outcome(Delete("Way", rel.id), [stats EXCEPT !.deleted_rels = @ + 1], cache)
    ELSE IF PushInfoPanics(rel.info) THEN Outcome(Panicked, stats, cache)
    ELSE LET v1 == PushValue(push_all_tags(NewBuf, rel.tags),
                             <<"osmm:type">>, XsdElement("Relation"))
             v2 == push_info(v1, rel.info)
         IN  Outcome(Create("Relation", rel.id, PushMembers(v2, rel.members),
                            rel.info.milli_timestamp),
                     [stats EXCEPT !.added_rels = @ + 1], cache)

\* The handler parse_block calls for an element of each kind.
Handle(stats, cache, e) ==
    CASE e.kind = "node" -> on_node(stats, cache, e)
      [] e.kind = "dense" -> on_dense_node(stats, cache, e)
      [] e.kind = "way" -> on_way(stats, cache, e)
      [] e.kind = "rel" -> on_relation(stats, cache, e)

\* ---------------------------------------------------------------- the input
\* Node identifiers of the input, and the order of the element kinds in a
\* group: plain nodes, dense nodes, ways, relations.
NodeIds == {1, 2}
\* Mutant of PhaseOf: the loop over the ways comes before the loop over the
\* dense nodes.
PhaseOf_WaysBeforeDense(kind) ==
    CASE kind = "node" -> 1 [] kind = "way" -> 2 [] kind = "dense" -> 3
      [] kind = "rel" -> 4

PhaseOf(kind) ==
    CASE kind = "node" -> 1 [] kind = "dense" -> 2 [] kind = "way" -> 3
      [] kind = "rel" -> 4

MkInfo(deleted, has_user, ts) ==
    [deleted |-> deleted, version |-> 1, has_user |-> has_user,
     user |-> IF has_user THEN <<"u">> ELSE <<>>,
     milli_timestamp |-> ts, changeset |-> 7]

MkElem(kind, id, info, tags, lat, lon, refs, members) ==
    [kind |-> kind, id |-> id, info |-> info, tags |-> tags, lat |-> lat,
     lon |-> lon, refs |-> refs, members |-> members]

TagName == <<<<"n", "a", "m", "e">>, <<"C", "a", "f", "e">>>>
TagRef == <<<<"r", "e", "f">>, <<"7">>>>

\* The elements a block of the pipeline's input is made of.
InputElems ==
    { MkElem("node", 1, MkInfo(FALSE, TRUE, 1500), <<TagName>>, 51, 11, <<>>, <<>>),
      MkElem("node", 2, MkInfo(FALSE, TRUE, 0), <<>>, 52, 12, <<>>, <<>>),
      MkElem("dense", 2, MkInfo(FALSE, TRUE, 2500), <<TagName>>, 52, 12, <<>>, <<>>),
      MkElem("way", 1, MkInfo(FALSE, TRUE, -1000), <<TagName, TagRef>>, 0, 0,
             <<1, 2>>, <<>>),
      MkElem("way", 2, MkInfo(FALSE, FALSE, 1000), <<>>, 0, 0, <<1>>, <<>>),
      MkElem("rel", 1, MkInfo(TRUE, TRUE, 3000), <<>>, 0, 0, <<>>, <<>>) }

\* Before a Parser has handled an element.
NoElem == MkElem("none", 0, MkInfo(FALSE, FALSE, 0), <<>>, 0, 0, <<>>, <<>>)
NoOut == [st |-> Skip, node |-> Skip]
\* Before a tag list was rendered, and before a batching worker has started.
NoRender == [tags |-> <<>>, parser |-> <<>>, strbuf |-> <<>>]
NoWorker ==
    [st |-> "idle", threshold |-> 0, produced |-> <<>>, buffer |-> <<>>,
     delivered |-> <<>>]

\* The rotation thresholds a run is configured with (max_file_size * 1024 *
\* 1024 in the code), in lines.
Thresholds == {0, MaxThreshold, 3 * MaxThreshold}

\* ------------------------------------------------------------------ state
VARIABLES
    ppc,            \* parse: "open", "cache", "run", "save", "join", "ok", "err", "panic"
    cache_opt,      \* "planet", "small" or "none": the cache the run is given
    max_file_size,  \* the writer's rotation threshold
    blk,            \* per blob, a rayon task: [st, data, group, phase, fed, n, stats];
                    \* fed counts the elements handed to a handler, n the
                    \* Statements sent
    stats,          \* the totalizer parse_with_cache owns (parent_stats)
    cache,          \* the node cache: id -> <<lat, lon>>
    chan,           \* the statements sent and not yet received
    wpc,            \* gz_writer: "recv", "done" or "failed" (panicked)
    encoder,        \* the position in files of the open data file, 0 for None
    size,           \* the bytes written to the open data file
    file_index,     \* the next file index
    oldest_ts,      \* the running maximum of ts
    files,          \* the files created, in creation order
    received,       \* the statements the writer received, in order
    elem,           \* the element a Parser handled last
    out,            \* what its handler returned: [st, node]
    rendered,       \* a tag list and what the two tag renderers wrote for it:
                    \* [tags, parser, strbuf]
    worker          \* a worker that batches its statements:
                    \* [st, threshold, produced, buffer, delivered]

vars == <<ppc, cache_opt, max_file_size, blk, stats, cache, chan, wpc, encoder,
          size, file_index, oldest_ts, files, received, elem, out, rendered,
          worker>>

Blocks == 1..MaxBlocks

\* A statement as it travels: the Statement and the element it comes from
\* (block, position in the block).
Sent(st, b, n) ==
    [type |-> st.type, elem |-> st.elem, id |-> st.id, ts |-> st.ts,
     val |-> st.val, src |-> <<b, n>>]

\* The same with the group of the block and the kind of the element.
SentFrom(st, b, n, g, kind) ==
    [type |-> st.type, elem |-> st.elem, id |-> st.id, ts |-> st.ts,
     val |-> st.val, src |-> <<b, n>>, group |-> g, kind |-> kind]

\* The Sender handles live while parse holds one: until parse_with_cache
\* returns or parse returns or unwinds.
SendersAlive == ppc \in {"open", "cache", "run"}

Init ==
    /\ ppc = "open"
    /\ cache_opt \in {"planet", "small", "none"}
    /\ max_file_size \in Thresholds
    /\ blk = [b \in Blocks |->
                [st |-> "todo", data |-> FALSE, group |-> 1, phase |-> 1, fed |-> 0, n |-> 0,
                 stats |-> StatsDefault]]
    /\ stats = StatsDefault
    /\ cache = [i \in NodeIds |-> <<0, 0>>]
    /\ chan = <<>>
    /\ wpc = "recv"
    /\ encoder = 0
    /\ size = 0
    /\ file_index = 0
    /\ oldest_ts = 0
    /\ files = <<>>
    /\ received = <<>>
    /\ elem = NoElem
    /\ out = NoOut
    /\ rendered = NoRender
    /\ worker = NoWorker

writerVars == <<wpc, encoder, size, file_index, oldest_ts, files, received>>
workerVars == <<blk, stats, cache>>

\* ------------------------------------------------------------------ parse
\* parse, line 344: BlobReader::from_path(input_file)?
OpenReader ==
    /\ ppc = "open"
    /\ \E ok \in BOOLEAN : ppc' = IF ok THEN "cache" ELSE "err"
    /\ UNCHANGED <<elem, out, rendered, worker, cache_opt, max_file_size, chan>>
    /\ UNCHANGED workerVars
    /\ UNCHANGED writerVars

\* parse, lines 345-354: the cache is opened; with neither cache configured
\* opt.small_cache.unwrap() panics.
OpenCache ==
    /\ ppc = "cache"
    /\ IF cache_opt = "none"
       THEN ppc' = "panic"
       ELSE \E ok \in BOOLEAN : ppc' = IF ok THEN "run" ELSE "err"
    /\ UNCHANGED <<elem, out, rendered, worker, cache_opt, max_file_size, chan>>
    /\ UNCHANGED workerVars
    /\ UNCHANGED writerVars

\* parse_with_cache, lines 373-377: the next blob of the reader is taken by a
\* rayon task; a blob that is no OsmData is dropped, a data block gets a
\* Parser of its own.
StartBlock(b) ==
    /\ ppc = "run"
    /\ blk[b].st = "todo"
    /\ \A c \in Blocks : c < b => blk[c].st # "todo"
    /\ \E data \in BOOLEAN :
         blk' = [blk EXCEPT ![b].st = IF data THEN "run" ELSE "done",
                            ![b].data = data]
    /\ UNCHANGED <<elem, out, rendered, worker, ppc, cache_opt, max_file_size, stats, cache, chan>>
    /\ UNCHANGED writerVars

\* Mutant of DropParser: the totalizer is read before the lock is taken, so
\* that a merge made in between is lost.
DropParser_LostUpdate(b) == combine(StatsDefault, blk[b].stats)

\* Drop for Parser: the Parser's stats are merged into the totalizer.
DropParser(b) == combine(stats, blk[b].stats)

\* parse_block, one turn of one of its loops: the element is the next of
\* the group at hand, of the kind being looped over or of a later kind, or
\* it is of an earlier kind and so the first of the block's next group; the
\* handler of its kind runs and its Statement is sent; a panic unwinds the
\* task, dropping the Parser.  writer.send(s).unwrap() panics as well once
\* the writer thread is gone and the Receiver with it.
ProcessElement(b) ==
    /\ ppc = "run"
    /\ blk[b].st = "run"
    /\ blk[b].fed < MaxElems
    /\ \E e \in InputElems :
         /\ LET r == Handle(blk[b].stats, cache, e)
                g == IF PhaseOf(e.kind) < blk[b].phase THEN blk[b].group + 1
                     ELSE blk[b].group
            IN  IF r.st.type = "Panic" \/ wpc = "failed"
                THEN /\ blk' = [blk EXCEPT ![b].st = "panic", ![b].fed = @ + 1,
                                           ![b].stats = r.stats]
                     /\ stats' = combine(stats, r.stats)
                     /\ cache' = r.cache
                     /\ chan' = chan
                ELSE /\ blk' = [blk EXCEPT ![b].phase = PhaseOf(e.kind),
                                           ![b].group = g,
                                           ![b].fed = @ + 1,
                                           ![b].n = @ + 1,
                                           ![b].stats = r.stats]
                     /\ stats' = stats
                     /\ cache' = r.cache
                     /\ chan' = Append(chan, SentFrom(r.st, b, blk[b].n + 1, g, e.kind))
    /\ UNCHANGED <<elem, out, rendered, worker, ppc, cache_opt, max_file_size>>
    /\ UNCHANGED writerVars

\* parse_block returns: the block's groups are exhausted and the Parser is
\* dropped.
FinishBlock(b) ==
    /\ ppc = "run"
    /\ blk[b].st = "run"
    /\ blk' = [blk EXCEPT ![b].st = "done"]
    /\ stats' = DropParser(b)
    /\ UNCHANGED <<elem, out, rendered, worker, ppc, cache_opt, max_file_size, cache, chan>>
    /\ UNCHANGED writerVars

\* parse_with_cache returns: the reader is exhausted and every task is over;
\* the cache and the Sender it was given are dropped with it.
ParseWithCacheReturns ==
    /\ ppc = "run"
    /\ \A b \in Blocks : blk[b].st \in {"todo", "done"}
    /\ blk' = [b \in Blocks |->
                 IF blk[b].st = "todo" THEN [blk[b] EXCEPT !.st = "none"] ELSE blk[b]]
    /\ ppc' = IF cache_opt = "small" THEN "save" ELSE "join"
    /\ UNCHANGED <<elem, out, rendered, worker, cache_opt, max_file_size, stats, cache, chan>>
    /\ UNCHANGED writerVars

\* A task's panic is propagated by for_each_with once no task runs: parse
\* unwinds without joining the writer.
ParseWithCacheUnwinds ==
    /\ ppc = "run"
    /\ \E b \in Blocks : blk[b].st = "panic"
    /\ \A b \in Blocks : blk[b].st # "run"
    /\ ppc' = "panic"
    /\ UNCHANGED <<elem, out, rendered, worker, cache_opt, max_file_size, chan>>
    /\ UNCHANGED workerVars
    /\ UNCHANGED writerVars

\* parse, line 356: cache.save_as_bin(filename)?
SaveCache ==
    /\ ppc = "save"
    /\ \E ok \in BOOLEAN : ppc' = IF ok THEN "join" ELSE "err"
    /\ UNCHANGED <<elem, out, rendered, worker, cache_opt, max_file_size, chan>>
    /\ UNCHANGED workerVars
    /\ UNCHANGED writerVars

\* Mutant of JoinWriter: parse returns Ok without waiting for the writer.
JoinWriter_NoWait ==
    /\ ppc = "join"
    /\ ppc' = "ok"
    /\ UNCHANGED <<elem, out, rendered, worker, cache_opt, max_file_size, chan>>
    /\ UNCHANGED workerVars
    /\ UNCHANGED writerVars

\* Mutant of JoinWriter: the result of join is dropped, parse returns Ok
\* whether or not the writer thread panicked.
JoinWriter_IgnoresPanic ==
    /\ ppc = "join"
    /\ wpc \in {"done", "failed"}
    /\ ppc' = "ok"
    /\ UNCHANGED <<elem, out, rendered, worker, cache_opt, max_file_size, chan>>
    /\ UNCHANGED workerVars
    /\ UNCHANGED writerVars

\* parse, lines 359-360: writer_thread.join().unwrap(); Ok(()).  join returns
\* Err when the writer thread panicked, and the unwrap panics.
JoinWriter ==
    /\ ppc = "join"
    /\ wpc \in {"done", "failed"}
    /\ ppc' = IF wpc = "done" THEN "ok" ELSE "panic"
    /\ UNCHANGED <<elem, out, rendered, worker, cache_opt, max_file_size, chan>>
    /\ UNCHANGED workerVars
    /\ UNCHANGED writerVars

\* -------------------------------------------------------------- gz_writer
\* Mutant of new_gz_file: the index is read and not advanced.
new_gz_file_SameIndex(fs, index) ==
    [files |-> Append(fs, [index |-> index, open |-> TRUE, items |-> <<>>]),
     file_index |-> index]

\* Mutant of new_gz_file: the file is named by the advanced index.
new_gz_file_NamedAfterAdd(fs, index) ==
    [files |-> Append(fs, [index |-> index + 1, open |-> TRUE, items |-> <<>>]),
     file_index |-> index + 1]

\* new_gz_file: the file osm-{index:06}.ttl.gz is created, empty, and the
\* index advances.  Returns the files and the next index.
new_gz_file(fs, index) ==
    [files |-> Append(fs, [index |-> index, open |-> TRUE, items |-> <<>>]),
     file_index |-> index + 1]

\* AtomicI64::fetch_max
fetch_max(cur, ts) == IF ts > cur THEN ts ELSE cur

\* writeln!(enc, "{elem}:{id}\n{val}"): the element's header line and body.
ElementBlock(v) ==
    [what |-> "element",
     head |-> <<ElementPrefix(v.elem), ":", ToString(v.id)>>,
     val |-> v.val, src |-> v.src, utc |-> to_utc(0)]

\* writeln!(enc, "osmroot: schema:dateModified {ts}.")
ModifiedStatement(ts) ==
    [what |-> "modified", head |-> <<"osmroot:", "schema:dateModified">>,
     val |-> <<>>, src |-> <<0, 0>>, utc |-> to_utc(ts)]

\* Mutant of OverThreshold: the comparison the wrong way round.
OverThreshold_Flipped(sz, max) == sz < max

\* Line 304: the file is rotated once its size is over the threshold.
OverThreshold(sz, max) == sz > max

\* Mutant of WriteCreate: the counter is not cleared when the file is closed.
WriteCreate_KeepsSize(v) ==
    LET opened == IF encoder = 0 THEN new_gz_file(files, file_index)
                  ELSE [files |-> files, file_index |-> file_index]
        enc == IF encoder = 0 THEN Len(opened.files) ELSE encoder
        written == [opened.files EXCEPT ![enc].items = Append(@, ElementBlock(v))]
        sz == size + BufLen(v.val)
    IN  /\ oldest_ts' = fetch_max(oldest_ts, v.ts)
        /\ file_index' = opened.file_index
        /\ size' = sz
        /\ IF OverThreshold(sz, max_file_size)
           THEN /\ files' = [written EXCEPT ![enc].open = FALSE]
                /\ encoder' = 0
           ELSE /\ files' = written
                /\ encoder' = enc

\* Lines 297-308: what the writer does with a Create.
WriteCreate(v) ==
    LET opened == IF encoder = 0 THEN new_gz_file(files, file_index)
                  ELSE [files |-> files, file_index |-> file_index]
        enc == IF encoder = 0 THEN Len(opened.files) ELSE encoder
        written == [opened.files EXCEPT ![enc].items = Append(@, ElementBlock(v))]
        sz == size + BufLen(v.val)
    IN  /\ oldest_ts' = fetch_max(oldest_ts, v.ts)
        /\ file_index' = opened.file_index
        /\ IF OverThreshold(sz, max_file_size)
           THEN /\ files' = [written EXCEPT ![enc].open = FALSE]
                /\ encoder' = 0
                /\ size' = 0
           ELSE /\ files' = written
                /\ encoder' = enc
                /\ size' = sz

\* Mutant of IsCreate: a Delete is written like a Create.
IsCreate_OrDelete(v) == v.type \in {"Create", "Delete"}

\* Line 297: if let Statement::Create { .. } = v
IsCreate(v) == v.type = "Create"

\* Lines 296-309: one turn of the receive loop.
WriterRecv ==
    /\ wpc = "recv"
    /\ chan # <<>>
    /\ chan' = Tail(chan)
    /\ received' = Append(received, Head(chan))
    /\ IF IsCreate(Head(chan))
       THEN WriteCreate(Head(chan))
       ELSE UNCHANGED <<encoder, size, file_index, oldest_ts, files>>
    /\ wpc' = wpc
    /\ UNCHANGED <<elem, out, rendered, worker, ppc, cache_opt, max_file_size>>
    /\ UNCHANGED workerVars

\* Lines 311-313: recv fails once the channel is empty and every Sender is
\* dropped; the trailer file is written and the thread ends, which closes the
\* files it still holds.
WriterFinish ==
    /\ wpc = "recv"
    /\ chan = <<>>
    /\ ~SendersAlive
    /\ LET opened == new_gz_file(files, file_index)
           enc == Len(opened.files)
           written == [opened.files EXCEPT
                          ![enc].items = Append(@, ModifiedStatement(oldest_ts))]
       IN  /\ files' = [i \in 1..Len(written) |-> [written[i] EXCEPT !.open = FALSE]]
           /\ file_index' = opened.file_index
    /\ wpc' = "done"
    /\ encoder' = 0
    /\ UNCHANGED <<size, oldest_ts, received, chan>>
    /\ UNCHANGED <<elem, out, rendered, worker, ppc, cache_opt, max_file_size>>
    /\ UNCHANGED workerVars

\* Every file closed: the thread's encoders are dropped when it ends.
AllClosed(fs) == [i \in 1..Len(fs) |-> [fs[i] EXCEPT !.open = FALSE]]

\* An I/O operation of the writer fails and its unwrap panics: File::create
\* (line 322, after the index was advanced), writeln! (lines 301, 313) or
\* finish (line 305).  The thread unwinds: the Receiver and the statements
\* still in the channel are dropped.
WriterIoFails ==
    /\ wpc = "recv"
    /\ \E point \in {"create", "write", "finish"} :
         IF chan # <<>>
         THEN /\ IsCreate(Head(chan))
              /\ point = "create" => encoder = 0
              /\ point = "finish" =>
                    OverThreshold(size + BufLen(Head(chan).val), max_file_size)
              /\ received' = Append(received, Head(chan))
              /\ oldest_ts' = fetch_max(oldest_ts, Head(chan).ts)
              /\ LET opened == new_gz_file(files, file_index)
                     fs == IF encoder = 0 /\ point # "create"
                           THEN opened.files ELSE files
                     enc == IF encoder = 0 THEN Len(fs) ELSE encoder
                 IN  /\ file_index' = IF encoder = 0 THEN opened.file_index
                                      ELSE file_index
                     /\ files' = AllClosed(
                           IF point = "finish"
                           THEN [fs EXCEPT ![enc].items = Append(@, ElementBlock(Head(chan)))]
                           ELSE fs)
              /\ size' = IF point = "finish" THEN size + BufLen(Head(chan).val)
                         ELSE size
         ELSE /\ ~SendersAlive
              /\ point # "finish"
              /\ LET opened == new_gz_file(files, file_index)
                 IN  /\ file_index' = opened.file_index
                     /\ files' = AllClosed(IF point = "write" THEN opened.files
                                           ELSE files)
              /\ UNCHANGED <<received, oldest_ts, size>>
    /\ wpc' = "failed"
    /\ encoder' = 0
    /\ chan' = <<>>
    /\ UNCHANGED <<elem, out, rendered, worker, ppc, cache_opt, max_file_size>>
    /\ UNCHANGED workerVars

\* ------------------------------------------------------------ specification
Next ==
    \/ OpenReader
    \/ OpenCache
    \/ \E b \in Blocks : StartBlock(b)
    \/ \E b \in Blocks : ProcessElement(b)
    \/ \E b \in Blocks : FinishBlock(b)
    \/ ParseWithCacheReturns
    \/ ParseWithCacheUnwinds
    \/ SaveCache
    \/ JoinWriter
    \/ WriterRecv
    \/ WriterFinish

Spec == Init /\ [][Next]_vars

\* The writer thread is scheduled as long as it can take a step.
FairSpec == Spec /\ WF_vars(WriterRecv) /\ WF_vars(WriterFinish)

\* The pipeline on a file system whose operations may fail.
FaultNext == Next \/ WriterIoFails
FaultSpec == Init /\ [][FaultNext]_vars

\* ------------------------------------------------------ properties: helpers
\* The positions of the Creates among the statements the writer received.
CreateIdx == {i \in 1..Len(received) : received[i].type = "Create"}
MaxOf(S) == CHOOSE m \in S : \A x \in S : x <= m
\* The files holding the dateModified statement, and the data files.
TrailerFiles ==
    {i \in 1..Len(files) : \E k \in 1..Len(files[i].items) :
                               files[i].items[k].what = "modified"}
DataFiles == (1..Len(files)) \ TrailerFiles
\* The size of the first k element blocks of a file, as the writer counts it.
RECURSIVE SizeOfFirst(_, _)
SizeOfFirst(items, k) ==
    IF k = 0 THEN 0 ELSE BufLen(items[k].val) + SizeOfFirst(items, k - 1)
\* ---------------------------------------------------------------------- C1
\* C1: after the channel closes, the timestamp in the trailer file is the
\* maximum ts over the Create statements the writer received.
C1_TrailerHoldsMaxTs ==
    (wpc = "done" /\ CreateIdx # {}) =>
        \A f \in TrailerFiles :
            files[f].items[1].utc = to_utc(MaxOf({received[i].ts : i \in CreateIdx}))

\* ---------------------------------------------------------------------- C2
\* C2 as stated: two received Creates whose combined size is over the
\* threshold make the writer end with at least two data files.
C2_TwoCreatesOverThreshold ==
    (wpc = "done"
     /\ \E i, j \in CreateIdx :
            i < j /\ BufLen(received[i].val) + BufLen(received[j].val) > max_file_size)
    => Cardinality(DataFiles) >= 2

\* C2 amended: two received Creates whose combined size is over the
\* threshold and which are followed by a further Create make the writer end
\* with at least two data files.
C2_TwoCreatesThenAnother ==
    (wpc = "done"
     /\ \E i, j, k \in CreateIdx :
            /\ i < j
            /\ j < k
            /\ BufLen(received[i].val) + BufLen(received[j].val) > max_file_size)
    => Cardinality(DataFiles) >= 2

C2_Witness ==
    /\ wpc = "done"
    /\ max_file_size > 0
    /\ Cardinality(CreateIdx) >= 3
    /\ \A i \in CreateIdx : BufLen(received[i].val) <= max_file_size
    /\ \E i, j, k \in CreateIdx :
            /\ i < j
            /\ j < k
            /\ BufLen(received[i].val) + BufLen(received[j].val) > max_file_size
    /\ Cardinality(DataFiles) >= 2

\* ---------------------------------------------------------------------- C3
\* C3: the size of every data file was at or below the threshold before its
\* most recent Create was written; while the writer streams, the open file's
\* size is the counter and is at or below the threshold; a file over the
\* threshold is closed and the counter is 0 when no file is open.
C3_RotationInvariant ==
    /\ \A f \in DataFiles :
          /\ SizeOfFirst(files[f].items, Len(files[f].items) - 1) <= max_file_size
          /\ SizeOfFirst(files[f].items, Len(files[f].items)) > max_file_size
                => ~files[f].open
          /\ files[f].open => f = encoder
    /\ (wpc = "recv" /\ encoder # 0) =>
          /\ encoder \in DataFiles
          /\ files[encoder].open
          /\ size = SizeOfFirst(files[encoder].items, Len(files[encoder].items))
          /\ size <= max_file_size
    /\ (wpc = "recv" /\ encoder = 0) => size = 0

C3_Witness ==
    /\ max_file_size > 0
    /\ encoder = 0
    /\ wpc = "recv"
    /\ \E f \in DataFiles :
          /\ Len(files[f].items) >= 2
          /\ SizeOfFirst(files[f].items, Len(files[f].items)) > max_file_size
    /\ \E g \in DataFiles : files[g].open = FALSE /\ g # Len(files)

\* ---------------------------------------------------------------------- C4
\* C4: every data file has the namespace-prefix header block written to it
\* before its first element block.
C4_HeaderBeforeElements ==
    \A f \in DataFiles :
        \A k \in 1..Len(files[f].items) :
            files[f].items[k].what = "element" =>
                \E h \in 1..(k - 1) : files[f].items[h].what = "header"

\* ---------------------------------------------------------------------- C5
\* The writer has ended: one trailer file, of one statement, the last file
\* created and the one with the highest index.
TrailerIsLast ==
    /\ Cardinality(TrailerFiles) = 1
    /\ TrailerFiles = {Len(files)}
    /\ Len(files[Len(files)].items) = 1
    /\ \A f \in DataFiles : files[f].index < files[Len(files)].index

\* C5: once every Sender is dropped the writer eventually ends; it then has
\* written exactly one trailer file, holding exactly one statement, created
\* after every data file and with the highest index; nothing is created or
\* written after it.
C5_OneTrailerAtTheEnd ==
    /\ (~SendersAlive) ~> (wpc = "done")
    /\ [](wpc = "recv" => TrailerFiles = {})
    /\ [](wpc = "done" => TrailerIsLast)
    /\ [][wpc = "done" => files' = files]_vars

C5_Witness ==
    /\ wpc = "done"
    /\ Cardinality(DataFiles) >= 2
    /\ ppc = "ok"

\* ---------------------------------------------------------------------- C6
\* C6: receiving a Delete or a Skip changes nothing of the writer's state: no
\* file is created or written, the size counter, the file index and the
\* running maximum keep their values.
C6_DeleteAndSkipChangeNothing ==
    [][(received' # received /\ Head(chan).type \in {"Delete", "Skip"})
          => UNCHANGED <<wpc, encoder, size, file_index, oldest_ts, files>>]_vars

C6_Witness ==
    /\ \E i, j \in 1..Len(received) :
          /\ i < j
          /\ received[i].type = "Create"
          /\ received[j].type \in {"Delete", "Skip"}
    /\ \E i \in 1..Len(received) : received[i].type = "Delete"
    /\ \E i \in 1..Len(received) : received[i].type = "Skip"
    /\ encoder # 0

\* ---------------------------------------------------------------------- C7
\* The statements sent so far: those received and those still in the channel.
SentSoFar == received \o chan
\* C7: every element handed to a handler has produced exactly one Statement
\* on the channel, and every Create received is in exactly one data file.
C7_OneStatementPerElement ==
    /\ \A b \in Blocks :
          /\ Cardinality({i \in 1..Len(SentSoFar) : SentSoFar[i].src[1] = b})
                = blk[b].fed
          /\ \A k \in 1..blk[b].fed :
                Cardinality({i \in 1..Len(SentSoFar) : SentSoFar[i].src = <<b, k>>}) = 1
    /\ \A i \in CreateIdx :
          Cardinality({<<f, k>> \in DataFiles \X (1..MaxBlocks * MaxElems) :
                          /\ k <= Len(files[f].items)
                          /\ files[f].items[k].src = received[i].src}) = 1

\* ---------------------------------------------------------------------- C8
\* C8: parse returns success only after every block taken from the reader
\* was processed, then every Sender was dropped, then the writer wrote the
\* trailer and ended.
C8_SuccessOrder ==
    /\ [](ppc = "ok" =>
            /\ \A b \in Blocks : blk[b].st \in {"done", "none"}
            /\ ~SendersAlive
            /\ chan = <<>>
            /\ wpc = "done"
            /\ Cardinality(TrailerFiles) = 1)
    /\ [][(SendersAlive /\ ~SendersAlive' /\ ppc' \in {"save", "join"})
             => \A b \in Blocks : blk[b].st \in {"todo", "done"}]_vars
    /\ [][(wpc = "recv" /\ wpc' = "done") => ~SendersAlive]_vars
    /\ [][(ppc # "ok" /\ ppc' = "ok") => (ppc = "join" /\ wpc = "done")]_vars

C8_Witness ==
    /\ ppc = "ok"
    /\ \A b \in Blocks : blk[b].st = "done" /\ blk[b].data /\ blk[b].n = MaxElems
    /\ Cardinality(DataFiles) >= 1

\* ------------------------------------------------------------------ C9
\* Stats::combine on its own: Parsers holding any counters are dropped in any
\* order.
Counters == {"added_nodes", "added_rels", "added_ways", "skipped_nodes",
             "deleted_nodes", "deleted_rels", "deleted_ways"}
StatsValues ==
    {[f \in Counters \cup {"blocks"} |-> IF f = g THEN c ELSE 0] :
        g \in Counters \cup {"blocks"}, c \in 0..MaxCount}
    \cup {[added_nodes |-> 1, added_rels |-> 2, added_ways |-> 3, skipped_nodes |-> 4,
           deleted_nodes |-> 5, deleted_rels |-> 6, deleted_ways |-> 7, blocks |-> 8]}

StatsInit ==
    /\ ppc = "run"
    /\ cache_opt = "small"
    /\ max_file_size = 0
    /\ blk \in [Blocks -> {[st |-> "run", data |-> TRUE, group |-> 1, phase |-> 1, fed |-> 0,
                            n |-> 0, stats |-> v] : v \in StatsValues}]
    /\ stats = StatsDefault
    /\ cache = [i \in NodeIds |-> <<0, 0>>]
    /\ chan = <<>>
    /\ wpc = "recv"
    /\ encoder = 0
    /\ size = 0
    /\ file_index = 0
    /\ oldest_ts = 0
    /\ files = <<>>
    /\ received = <<>>
    /\ elem = NoElem
    /\ out = NoOut
    /\ rendered = NoRender
    /\ worker = NoWorker

StatsNext == \E b \in Blocks : FinishBlock(b)

StatsSpec == StatsInit /\ [][StatsNext]_vars

\* The Parsers merged so far, and the sum of a field over them.
Merged == {b \in Blocks : blk[b].st = "done"}
RECURSIVE SumField(_, _)
SumField(f, S) ==
    IF S = {} THEN 0
    ELSE LET b == CHOOSE x \in S : TRUE
         IN  blk[b].stats[f] + SumField(f, S \ {b})

\* C9 as stated: after merging, every field of the totalizer, the block
\* count included, is the sum of that field over the merged values.
C9_EveryFieldIsSum ==
    \A f \in Counters \cup {"blocks"} : stats[f] = SumField(f, Merged)

\* C9 amended: whatever the order of the merges, each of the seven
\* added/skipped/deleted counters of the totalizer is the sum of that counter
\* over the merged values, and the block count is the number of merges.
C9_CountersSumBlocksCount ==
    /\ \A f \in Counters : stats[f] = SumField(f, Merged)
    /\ stats.blocks = Cardinality(Merged)

C9_Witness ==
    /\ Merged = Blocks
    /\ \E b, c \in Blocks : b # c /\ blk[b].stats # blk[c].stats
    /\ \E b \in Blocks : blk[b].stats.blocks > 0
    /\ \E f \in Counters : stats[f] > MaxCount

\* ------------------------------------------------------- one Parser alone
\* The handlers on their own: one Parser handles elements drawn from
\* ElemInputs, one after the other.
TagCreatedBy == <<CREATED_BY, <<"J", "O", "S", "M">>>>
TagBadKey == <<<<"a", " ", "b">>, <<"x">>>>
NodeTagLists ==
    {<<>>, <<TagCreatedBy>>, <<TagName>>, <<TagCreatedBy, TagName>>,
     <<TagCreatedBy, TagCreatedBy>>, <<TagBadKey>>}
\* id, lat, lon
NodePlaces == {<<1, 51, 11>>, <<2, -33, 151>>}

NodeInputs ==
    {MkElem(kind, p[1], MkInfo(deleted, has_user, 1500), tags, p[2], p[3], <<>>, <<>>) :
        kind \in {"node", "dense"}, p \in NodePlaces, deleted \in BOOLEAN,
        has_user \in BOOLEAN, tags \in NodeTagLists}

\* Ways: deleted or not, with and without a user, of one, two and three
\* references (the last a closed ring).
WayRefs == {<<1>>, <<1, 2>>, <<1, 2, 1>>}
WayInputs ==
    {MkElem("way", 1, MkInfo(deleted, has_user, 1500), tags, 0, 0, refs, <<>>) :
        deleted \in BOOLEAN, has_user \in BOOLEAN,
        tags \in {<<>>, <<TagName>>, <<TagBadKey>>}, refs \in WayRefs}

\* Relations: members with and without a role.
Member(type, id, role) == [member_type |-> type, member_id |-> id, role |-> role]
RoleOuter == <<"o", "u", "t", "e", "r">>
MemberLists ==
    {<<>>, <<Member("Way", 77, RoleOuter)>>, <<Member("Node", 1, <<>>)>>,
     <<Member("Way", 77, RoleOuter), Member("Relation", 5, <<>>)>>}
RelInputs ==
    {MkElem("rel", 1, MkInfo(deleted, has_user, 1500), tags, 0, 0, <<>>, members) :
        deleted \in BOOLEAN, has_user \in BOOLEAN,
        tags \in {<<>>, <<TagName>>}, members \in MemberLists}

\* Tagged plain nodes of other revision times: before the epoch, on a whole
\* second and between two.
Stamps == {-1500, -1000, -1, 0, 999, 1000, 2001}
StampedInputs ==
    {MkElem("node", 1, MkInfo(FALSE, TRUE, ts), <<TagName>>, 51, 11, <<>>, <<>>) :
        ts \in Stamps}

ElemInputs == NodeInputs \cup WayInputs \cup RelInputs \cup StampedInputs

\* The node cache a Parser starts from: HashMapCache::new(), or the cache
\* HashMapCache::from_bin loaded.
StartCaches ==
    {[i \in NodeIds |-> <<0, 0>>],
     [i \in NodeIds |-> IF i = 1 THEN <<51, 11>> ELSE <<52, 12>>]}

ElemInit ==
    /\ ppc = "run"
    /\ cache_opt = "small"
    /\ max_file_size = 0
    /\ blk = [b \in Blocks |->
                [st |-> IF b = 1 THEN "run" ELSE "todo", data |-> b = 1,
                 group |-> 1, phase |-> 1, fed |-> 0, n |-> 0, stats |-> StatsDefault]]
    /\ stats = StatsDefault
    /\ cache \in StartCaches
    /\ chan = <<>>
    /\ wpc = "recv"
    /\ encoder = 0
    /\ size = 0
    /\ file_index = 0
    /\ oldest_ts = 0
    /\ files = <<>>
    /\ received = <<>>
    /\ elem = NoElem
    /\ out = NoOut
    /\ rendered = NoRender
    /\ worker = NoWorker

\* The Parser of block 1 handles one more element; out keeps the Statement
\* of the handler and, for a node, the Statement process_node returned.
HandleElement ==
    /\ blk[1].st = "run"
    /\ blk[1].fed < MaxElems
    /\ \E e \in ElemInputs :
         LET r == Handle(blk[1].stats, cache, e)
         IN  /\ elem' = e
             /\ out' = [st |-> r.st,
                        node |-> IF e.kind \in {"node", "dense"}
                                 THEN process_node(blk[1].stats, cache, e.info.deleted,
                                                   e.id, e.tags, e.lat, e.lon).st
                                 ELSE Skip]
             /\ cache' = r.cache
             /\ blk' = [blk EXCEPT ![1].fed = @ + 1, ![1].stats = r.stats,
                                   ![1].st = IF r.st.type = "Panic" THEN "panic" ELSE @]
    /\ UNCHANGED <<rendered, worker, ppc, cache_opt, max_file_size, stats, chan>>
    /\ UNCHANGED writerVars

ElemNext == HandleElement

ElemSpec == ElemInit /\ [][ElemNext]_vars

\* ---------------------------------------------------------------------- C10
IsLiveNode(e) == e.kind \in {"node", "dense"} /\ ~e.info.deleted
\* The body has the type marker of a node and the point of the element,
\* longitude first.
HasNodeMarkers(val, e) ==
    /\ \E i \in 1..Len(val) :
          val[i].pred = <<"osmm:type">> /\ val[i].obj = <<"\"", "n", "\"">>
    /\ \E i \in 1..Len(val) :
          /\ val[i].pred = <<"osmm:loc">>
          /\ val[i].obj = <<"\"Point(", ToString(e.lon), " ", ToString(e.lat),
                            ")\"^^geo:wktLiteral">>

\* C10 as stated, of the Statement process_node returns: a non-deleted node
\* yields Skip when it has no tag, and when it has at least one tag, whatever
\* its key, it yields Create with the type marker of a node and a point
\* literal, longitude before latitude.
C10_TaggedNodeYieldsCreate ==
    IsLiveNode(elem) =>
        /\ elem.tags = <<>> => out.node.type = "Skip"
        /\ elem.tags # <<>> =>
              out.node.type = "Create" /\ HasNodeMarkers(out.node.val, elem)

\* C10 amended: for a non-deleted node process_node returns Skip when the
\* node has no tag other than created_by, and otherwise Create with the type
\* marker of a node and a point literal, longitude before latitude; both are
\* still in the body of the Statement the node's handler returns.
C10_NodeWithOtherTagYieldsCreate ==
    IsLiveNode(elem) =>
        LET others == {i \in 1..Len(elem.tags) : elem.tags[i][1] # CREATED_BY}
        IN  /\ others = {} => (out.node.type = "Skip" /\ out.st.type = "Skip")
            /\ others # {} =>
                  /\ out.node.type = "Create"
                  /\ HasNodeMarkers(out.node.val, elem)
                  /\ out.st.type # "Skip"
                  /\ out.st.type = "Create" => HasNodeMarkers(out.st.val, elem)

C10_Witness ==
    /\ IsLiveNode(elem)
    /\ elem.kind = "dense"
    /\ elem.tags = <<TagCreatedBy, TagName>>
    /\ elem.lat # elem.lon
    /\ out.st.type = "Create"
    /\ out.node.type = "Create"

\* ---------------------------------------------------------------------- C11
IsLiveRel(e) == e.kind = "rel" /\ ~e.info.deleted
\* The clauses of a body with a given predicate and object.
Clauses(val, pred, obj) ==
    {i \in 1..Len(val) : val[i].pred = pred /\ val[i].obj = obj}
MemberRef(m) == <<ElementPrefix(m.member_type), ":", ToString(m.member_id)>>

\* C11: in the body of a non-deleted relation every member has one "has
\* member" clause referencing it, and has the clause associating it with its
\* role exactly when its role string is not empty.
C11_RoleClauseIffRole ==
    (IsLiveRel(elem) /\ out.st.type = "Create") =>
        \A k \in 1..Len(elem.members) :
            LET m == elem.members[k]
            IN  /\ Cardinality(Clauses(out.st.val, <<"osmm:has">>, MemberRef(m))) = 1
                /\ (m.role # <<>>) <=>
                      (\E i \in 1..Len(out.st.val) : out.st.val[i].pred = MemberRef(m))

\* ---------------------------------------------------------------------- C12
IsLiveWay(e) == e.kind = "way" /\ ~e.info.deleted
HasPred(val, pred) == \E i \in 1..Len(val) : val[i].pred = pred

\* C12: every non-deleted way yields Create; when its geometry cannot be
\* computed the body has the location-error clause and no point clause, when
\* it can the body has the point clause and no location-error clause; the
\* element is never aborted.
C12_WayAlwaysCreates ==
    IsLiveWay(elem) =>
        /\ out.st.type = "Create"
        /\ LET coords == [i \in 1..Len(elem.refs) |-> get_lat_lon(cache, elem.refs[i])]
           IN  IF CreateLineStringFails(coords)
               THEN /\ HasPred(out.st.val, <<"osmm:loc:error">>)
                    /\ ~HasPred(out.st.val, <<"osmm:loc">>)
               ELSE /\ HasPred(out.st.val, <<"osmm:loc">>)
                    /\ ~HasPred(out.st.val, <<"osmm:loc:error">>)

\* ------------------------------------------------------ the tag renderers
\* The two tag renderers on their own: Parser::push_all_tags and
\* StringBuf::add_tags are fed the same tags, one turn of their loops at a
\* time.
WikidataIds == {<<"Q", "1">>, <<"Q", "2", "0">>}
IdLists == UNION {[1..n -> WikidataIds] : n \in 2..MaxIds}
\* Q1;Q2;...;Qn
RECURSIVE JoinIds(_)
JoinIds(ids) ==
    IF Len(ids) = 1 THEN ids[1] ELSE ids[1] \o <<";">> \o JoinIds(Tail(ids))

KeyName == <<"n", "a", "m", "e">>
KeyBad == <<"a", " ", "b">>
KeyBrandWikidata == <<"b", "r", "a", "n", "d", ":">> \o WIKIDATA
ValX == <<"x">>
ValOneId == <<"Q", "7">>
ValLeadingZero == <<"Q", "0", "1", ";", "Q", "2">>
ValSpaced == <<"Q", "1", " ", ";", " ", "Q", "2", "0">>
ValArticle == <<"e", "n", ":", "A", " ", "b">>

TagAlphabet ==
    ({CREATED_BY, KeyName, KeyBad} \X {ValX, JoinIds(<<<<"Q", "1">>, <<"Q", "2", "0">>>>)})
    \cup ({KeyBrandWikidata}
             \X ({JoinIds(ids) : ids \in IdLists}
                   \cup {ValX, ValOneId, ValLeadingZero, ValSpaced}))
    \cup {<<WIKIDATA, JoinIds(<<<<"Q", "2", "0">>, <<"Q", "1">>>>)>>,
          <<WIKIPEDIA, ValArticle>>}

TagInit ==
    /\ ppc = "run"
    /\ cache_opt = "small"
    /\ max_file_size = 0
    /\ blk = [b \in Blocks |->
                [st |-> IF b = 1 THEN "run" ELSE "todo", data |-> b = 1,
                 group |-> 1, phase |-> 1, fed |-> 0, n |-> 0, stats |-> StatsDefault]]
    /\ stats = StatsDefault
    /\ cache = [i \in NodeIds |-> <<0, 0>>]
    /\ chan = <<>>
    /\ wpc = "recv"
    /\ encoder = 0
    /\ size = 0
    /\ file_index = 0
    /\ oldest_ts = 0
    /\ files = <<>>
    /\ received = <<>>
    /\ elem = NoElem
    /\ out = NoOut
    /\ rendered = NoRender
    /\ worker = NoWorker

\* One turn of `for (key, val) in tags` in each of the two renderers.
RenderTag ==
    /\ Len(rendered.tags) < MaxTags
    /\ \E t \in TagAlphabet :
         rendered' = [tags |-> Append(rendered.tags, t),
                      parser |-> push_all_tags(rendered.parser, <<t>>),
                      strbuf |-> add_tags(rendered.strbuf, <<t>>)]
    /\ UNCHANGED <<elem, out, worker, ppc, cache_opt, max_file_size, chan>>
    /\ UNCHANGED workerVars
    /\ UNCHANGED writerVars

TagNext == RenderTag

TagSpec == TagInit /\ [][TagNext]_vars

\* ---------------------------------------------------------------------- C13
\* The tags whose key is not created_by and fails the local-name pattern, and
\* the bad-key clauses of a body, each in their order.
IsBadTag(t) == t[1] # CREATED_BY /\ ~RE_SIMPLE_LOCAL_NAME(t[1])
IsBadClause(line) == line.pred = <<"osmm:badkey">>
Quoted(s) == <<"\"">> \o s \o <<"\"">>

\* What C13 says of one rendering of the tags.
BadKeysCarryValue(tags, body) ==
    LET bad == SelectSeq(tags, IsBadTag)
        clauses == SelectSeq(body, IsBadClause)
    IN  /\ Len(clauses) = Len(bad)
        /\ \A i \in 1..Len(bad) :
              /\ i <= Len(clauses) => clauses[i].obj = Quoted(bad[i][2])
              /\ ~HasPred(body, XsdRaw("osmt", bad[i][1]))
        /\ Len(body) = Len(SelectSeq(tags, LAMBDA t : t[1] # CREATED_BY))

\* C13: for every tag whose key is not created_by and fails the local-name
\* pattern, each of the two renderers writes exactly one bad-key clause whose
\* object is the tag's value as a quoted string, writes no clause with the key
\* as predicate, and goes on with the remaining tags.
C13_BadKeyCarriesValueInBoth ==
    /\ BadKeysCarryValue(rendered.tags, rendered.parser)
    /\ BadKeysCarryValue(rendered.tags, rendered.strbuf)

C15_IndicesInCreationOrder ==
    /\ \A i \in 1..Len(files) : files[i].index = i - 1
    /\ \A i, j \in 1..Len(files) : i < j => files[i].index < files[j].index
    /\ file_index = Len(files)

C15_Witness ==
    /\ wpc = "done"
    /\ Cardinality(DataFiles) >= 2
    /\ Cardinality(TrailerFiles) = 1
    /\ files[Len(files)].index = Len(files) - 1

\* ---------------------------------------------------------------------- C16
\* The clauses push_metadata writes.
MetadataPreds ==
    {<<"osmm:version">>, <<"osmm:user">>, <<"osmm:timestamp">>, <<"osmm:changeset">>}

\* C16: the body of every Create ends on the statement terminator: the
\* metadata clauses are its last clauses, the terminator is on its last line
\* and on no other, and no clause follows it.
C16_BodyEndsOnTerminator ==
    out.st.type = "Create" =>
        LET val == out.st.val
        IN  /\ val # <<>>
            /\ val[Len(val)].end = "."
            /\ \A i \in 1..(Len(val) - 1) : val[i].end = ";"
            /\ \A i, j \in 1..Len(val) :
                  (val[i].pred \in MetadataPreds /\ val[j].pred \notin MetadataPreds)
                      => j < i

\* ---------------------------------------------------------------------- C17
\* C17: an element whose Info has no user is processed normally: its handler
\* returns a Statement, and the body of a Create has no user clause and has
\* the version, timestamp and changeset clauses.
C17_NoUserIsNoError ==
    (elem.kind # "none" /\ ~elem.info.has_user) =>
        /\ out.st.type \in {"Skip", "Delete", "Create"}
        /\ out.st.type = "Create" =>
              /\ ~HasPred(out.st.val, <<"osmm:user">>)
              /\ HasPred(out.st.val, <<"osmm:version">>)
              /\ HasPred(out.st.val, <<"osmm:timestamp">>)
              /\ HasPred(out.st.val, <<"osmm:changeset">>)

\* ---------------------------------------------------------------------- C18
\* C18: parse run with neither a planet cache nor a small cache, once the
\* input file is open, does not fail: when it has ended it has returned
\* success and at least one output file exists.
C18_NoCacheRunSucceeds ==
    (cache_opt = "none" /\ ppc \notin {"open", "err"}) =>
        /\ ppc # "panic"
        /\ ppc = "ok" => files # <<>>

\* ----------------------------------------------------- the batching worker
\* A worker that batches: the statements it renders for a group go to a
\* buffer, the buffer is sent as one batch once it holds more statements than
\* the batch threshold, and what is left is sent when the group completes.
\* The channel then carries batches: worker.delivered.
BatchThresholds == 0..MaxBatch

\* The Statements the handlers return for the elements of the input.
GroupStatements ==
    {Handle(StatsDefault, [i \in NodeIds |-> <<0, 0>>], e).st : e \in InputElems}
        \ {Panicked}

\* Mutant of Batched: the buffer is sent and not emptied.
Batched_KeepsBuffer(w, st) ==
    LET buf == Append(w.buffer, st)
    IN  IF Len(buf) > w.threshold
        THEN [w EXCEPT !.produced = Append(@, st), !.buffer = buf,
                       !.delivered = Append(@, buf)]
        ELSE [w EXCEPT !.produced = Append(@, st), !.buffer = buf]

\* The worker after it has rendered one more statement.
Batched(w, st) ==
    LET buf == Append(w.buffer, st)
    IN  IF Len(buf) > w.threshold
        THEN [w EXCEPT !.produced = Append(@, st), !.buffer = <<>>,
                       !.delivered = Append(@, buf)]
        ELSE [w EXCEPT !.produced = Append(@, st), !.buffer = buf]

\* The worker after its group is complete: the remainder is sent.
Flushed(w) ==
    IF w.buffer = <<>> THEN [w EXCEPT !.st = "done"]
    ELSE [w EXCEPT !.st = "done", !.buffer = <<>>,
                   !.delivered = Append(@, w.buffer)]

BatchInit ==
    /\ ppc = "run"
    /\ cache_opt = "small"
    /\ max_file_size = 0
    /\ blk = [b \in Blocks |->
                [st |-> IF b = 1 THEN "run" ELSE "todo", data |-> b = 1,
                 group |-> 1, phase |-> 1, fed |-> 0, n |-> 0, stats |-> StatsDefault]]
    /\ stats = StatsDefault
    /\ cache = [i \in NodeIds |-> <<0, 0>>]
    /\ chan = <<>>
    /\ wpc = "recv"
    /\ encoder = 0
    /\ size = 0
    /\ file_index = 0
    /\ oldest_ts = 0
    /\ files = <<>>
    /\ received = <<>>
    /\ elem = NoElem
    /\ out = NoOut
    /\ rendered = NoRender
    /\ \E t \in BatchThresholds : worker = [NoWorker EXCEPT !.st = "run", !.threshold = t]

\* The worker renders the next element of its group.
ProduceStatement ==
    /\ worker.st = "run"
    /\ Len(worker.produced) < MaxProduced
    /\ \E st \in GroupStatements :
         worker' = Batched(worker, Sent(st, 1, Len(worker.produced) + 1))
    /\ UNCHANGED <<elem, out, rendered, ppc, cache_opt, max_file_size, chan>>
    /\ UNCHANGED workerVars
    /\ UNCHANGED writerVars

\* The group is complete.
CompleteGroup ==
    /\ worker.st = "run"
    /\ worker' = Flushed(worker)
    /\ UNCHANGED <<elem, out, rendered, ppc, cache_opt, max_file_size, chan>>
    /\ UNCHANGED workerVars
    /\ UNCHANGED writerVars

BatchNext == ProduceStatement \/ CompleteGroup

BatchSpec == BatchInit /\ [][BatchNext]_vars

\* ---------------------------------------------------------------------- C19
\* The batches one after the other.
RECURSIVE Flatten(_)
Flatten(batches) ==
    IF batches = <<>> THEN <<>> ELSE Head(batches) \o Flatten(Tail(batches))

RECURSIVE JoinRefs(_)
JoinRefs(ids) ==
    IF Len(ids) = 1 THEN <<"wd", ":">> \o ids[1]
    ELSE <<"wd", ":">> \o ids[1] \o <<",">> \o JoinRefs(Tail(ids))
\* The wikidata-keyed tags: the key passed the name validation and contains
\* "wikidata".
IsWikidataKey(key) == RE_SIMPLE_LOCAL_NAME(key) /\ Contains(key, WIKIDATA)
\* The clauses with predicate osmt:key, in their order.
ClausesOf(body, key) ==
    SelectSeq(body, LAMBDA line : line.pred = <<"osmt", ":">> \o key)
\* The tags with that key.
TagsOf(tags, key) == SelectSeq(tags, LAMBDA t : t[1] = key)

\* What C20 says of one rendering of the tags.
MultiValueIsOneList(tags, body) ==
    \A k \in 1..Len(tags) :
        \A ids \in IdLists :
            (IsWikidataKey(tags[k][1]) /\ tags[k][2] = JoinIds(ids)) =>
                LET n == Len(TagsOf(SubSeq(tags, 1, k), tags[k][1]))
                    clauses == ClausesOf(body, tags[k][1])
                IN  /\ Len(clauses) = Len(TagsOf(tags, tags[k][1]))
                    /\ clauses[n].obj = JoinRefs(ids)
                    /\ Len(SelectSeq(clauses[n].obj, LAMBDA c : c = ",")) = Len(ids) - 1

\* C20: a wikidata-keyed tag whose value is Q1;Q2;...;Qn, n >= 2, of valid
\* identifiers is rendered as exactly one clause for the key, whose object is
\* the comma-joined list of the n entity references in the order of the
\* input.
C20_MultiValueIsOneList ==
    /\ MultiValueIsOneList(rendered.tags, rendered.parser)
    /\ MultiValueIsOneList(rendered.tags, rendered.strbuf)

C20_Witness ==
    /\ Len(rendered.tags) = MaxTags
    /\ rendered.tags[1][1] = KeyBad
    /\ rendered.tags[2][1] = KeyBrandWikidata
    /\ \E ids \in IdLists :
          /\ Len(ids) >= 3
          /\ ids[1] # ids[2]
          /\ rendered.tags[2][2] = JoinIds(ids)
          /\ rendered.parser[2].obj = JoinRefs(ids)

\* ---------------------------------------------------------------------- C21
\* The sub-order of the kinds within a group.
KindRank(kind) ==
    CASE kind = "node" -> "a" [] kind = "dense" -> "b" [] kind = "way" -> "c"
      [] kind = "rel" -> "d"
RankPairs ==
    {<<"a", "a">>, <<"a", "b">>, <<"a", "c">>, <<"a", "d">>, <<"b", "b">>,
     <<"b", "c">>, <<"b", "d">>, <<"c", "c">>, <<"c", "d">>, <<"d", "d">>}

\* C21: the writer receives the statements of one block in the order the
\* block's worker produced them, whatever the interleaving with the other
\* blocks; those of one group come plain nodes first, then dense nodes, then
\* ways, then relations.
C21_BlockOrderKept ==
    \A i, j \in 1..Len(received) :
        (i < j /\ received[i].src[1] = received[j].src[1]) =>
            /\ received[i].src[2] < received[j].src[2]
            /\ received[i].group <= received[j].group
            /\ received[i].group = received[j].group =>
                  <<KindRank(received[i].kind), KindRank(received[j].kind)>> \in RankPairs

C21_Witness ==
    /\ Len(received) >= 4
    /\ received[1].src[1] # received[2].src[1]
    /\ received[1].src[1] = received[3].src[1]
    /\ received[2].src[1] = received[4].src[1]
    /\ received[1].group = received[3].group
    /\ received[1].kind = "dense"
    /\ received[3].kind = "way"
    /\ received[2].group < received[4].group

\* ---------------------------------------------------------------------- C22
\* The data blocks whose Parser has been dropped, by return or by unwinding.
Dropped == {b \in Blocks : blk[b].data /\ blk[b].st \in {"done", "panic"}}

RECURSIVE SumOver(_, _)
SumOver(f, S) ==
    IF S = {} THEN 0
    ELSE LET b == CHOOSE x \in S : TRUE
         IN  blk[b].stats[f] + SumOver(f, S \ {b})

TotalIsSumOfDropped ==
    /\ \A f \in Counters : stats[f] = SumOver(f, Dropped)
    /\ stats.blocks = Cardinality(Dropped)

\* The totalizer changes only in a step in which exactly one worker ends its
\* block, and a worker's own counters no longer change once it has.
MergedOnlyAtCompletion ==
    /\ stats' # stats =>
          \E b \in Blocks :
              /\ blk[b].st = "run"
              /\ blk'[b].st \in {"done", "panic"}
              /\ \A c \in Blocks \ {b} : blk'[c] = blk[c]
    /\ \A b \in Blocks :
          blk[b].st \in {"done", "panic"} => blk'[b].stats = blk[b].stats

\* C22: whatever the interleaving of the workers, each worker merges its
\* Stats into the totalizer once, when its block ends; at every moment, and
\* so when all workers are over, each added/skipped/deleted counter of the
\* totalizer is the sum of that counter over the workers that ended and the
\* block count is the number of data blocks they processed.
C22_StatsMergedOncePerWorker ==
    []TotalIsSumOfDropped /\ [][MergedOnlyAtCompletion]_vars

C22_Witness ==
    /\ ppc \in {"save", "join"}
    /\ Dropped = Blocks
    /\ stats.blocks = MaxBlocks
    /\ \E f \in Counters : \A b \in Blocks : blk[b].stats[f] > 0

\* ---------------------------------------------------------------------- C23
\* The way reads the cache: it is not deleted and its metadata clauses were
\* written, which comes before the geometry.
ReadsCache(e) == IsLiveWay(e) /\ ~PushInfoPanics(e.info) /\ e.refs # <<>>
\* An identifier no worker has written yet: the cache still has its default.
Unwritten(id) == get_lat_lon(cache, id) = <<0, 0>>

\* C23: nothing orders the cache write of a node in one block and the cache
\* read of a way in another; whenever a worker handles a way one of whose
\* nodes is not yet written, the read returns the default, the cache is left
\* as it is and the way is emitted as Create; every statement of a way that
\* reaches the channel is a Create or a Delete.
C23_UnwrittenReadIsNotFatal ==
    /\ \A b \in Blocks :
          blk[b].st = "run" =>
              \A e \in InputElems :
                  (ReadsCache(e) /\ \E i \in 1..Len(e.refs) : Unwritten(e.refs[i])) =>
                      LET r == Handle(blk[b].stats, cache, e)
                      IN  /\ r.st.type = "Create"
                          /\ r.st.elem = "Way"
                          /\ HasPred(r.st.val, <<"osmm:loc">>)
                          /\ r.cache = cache
    /\ \A i \in 1..Len(SentSoFar) :
          SentSoFar[i].kind = "way" => SentSoFar[i].type \in {"Create", "Delete"}

\* A way whose point is the default was received before the Create of the
\* node it read, which another block's worker handled.
C23_Witness ==
    \E i, j \in 1..Len(received) :
        /\ i < j
        /\ received[i].kind = "way"
        /\ received[i].type = "Create"
        /\ Clauses(received[i].val, <<"osmm:loc">>, XsdPoint(0, 0)) # {}
        /\ received[j].kind = "node"
        /\ received[j].type = "Create"
        /\ received[j].id = 1
        /\ received[j].src[1] # received[i].src[1]
        /\ ~Unwritten(1)

\* ---------------------------------------------------------------------- C24
\* The step in which the Parser handles a node.
NodeStep ==
    /\ blk'[1].fed = blk[1].fed + 1
    /\ elem'.kind \in {"node", "dense"}

\* C24: handling a deleted node adds one to the deleted-node counter, yields
\* Delete and leaves the cache as it was; handling a non-deleted node writes
\* its (lat, lon) under its identifier and nothing else, also when the result
\* is Skip, so that a read of the identifier then returns these coordinates
\* whatever was there before.
C24_NodeFrame ==
    [][NodeStep =>
         IF elem'.info.deleted
         THEN /\ blk'[1].stats.deleted_nodes = blk[1].stats.deleted_nodes + 1
              /\ out'.node = [type |-> "Delete", elem |-> "Node", id |-> elem'.id,
                              ts |-> 0, val |-> <<>>]
              /\ out'.st = out'.node
              /\ cache' = cache
         ELSE /\ out'.node.type \in {"Skip", "Create"}
              /\ get_lat_lon(cache', elem'.id) = <<elem'.lat, elem'.lon>>
              /\ \A i \in NodeIds \ {elem'.id} : cache'[i] = cache[i]
              /\ blk'[1].stats.deleted_nodes = blk[1].stats.deleted_nodes
    ]_vars

\* An untagged node, which yields Skip, has replaced the coordinates the
\* loaded cache had for its identifier.
C24_Witness ==
    /\ blk[1].fed = 1
    /\ IsLiveNode(elem)
    /\ out.node.type = "Skip"
    /\ elem.id = 2
    /\ get_lat_lon(cache, 1) = <<51, 11>>
    /\ get_lat_lon(cache, 2) = <<elem.lat, elem.lon>>
    /\ get_lat_lon(cache, 2) # <<52, 12>>

\* ---------------------------------------------------------------------- C25
\* C25: the ts of every Create a handler returns is the milli_timestamp of
\* the element's revision metadata, for plain nodes, dense nodes, ways and
\* relations.
C25_CreateCarriesTimestamp ==
    out.st.type = "Create" => out.st.ts = elem.info.milli_timestamp

\* ---------------------------------------------------------------------- C26
\* The handler of the element gets as far as the timestamp clause: the
\* element is emitted and the user, where the handler unwraps it, is there.
ReachesTimestamp ==
    /\ ~elem.info.deleted
    /\ \/ elem.kind = "dense" /\ out.node.type = "Create"
       \/ elem.kind = "node" /\ out.node.type = "Create" /\ elem.info.has_user
       \/ elem.kind \in {"way", "rel"} /\ elem.info.has_user
\* The instant m milliseconds after the epoch, as whole seconds and
\* nanoseconds, written as XsdDateTime writes an instant.
InstantOfMillis(m) ==
    <<"\"", ToString(m \div 1000), "s", ToString((m % 1000) * 1000000), "ns",
      "\"^^xsd:dateTime">>

\* C26: for every millisecond value m the conversion succeeds and the
\* timestamp clause denotes m div 1000 seconds and (m mod 1000) * 1000000
\* nanoseconds after the epoch, for negative m and for m between two seconds
\* as well.
C26_ToUtcIsMillisecondInstant ==
    ReachesTimestamp =>
        /\ out.st.type = "Create"
        /\ Clauses(out.st.val, <<"osmm:timestamp">>,
                   InstantOfMillis(elem.info.milli_timestamp)) # {}

\* ---------------------------------------------------------------------- C27
\* The Element of a kind of source element.
ElementOf(kind) ==
    CASE kind \in {"node", "dense"} -> "Node"
      [] kind = "way" -> "Way"
      [] kind = "rel" -> "Relation"

\* C27: a Delete or Create names the kind and the identifier of the element
\* it was made from, deleted or not.
C27_StatementNamesItsElement ==
    out.st.type \in {"Delete", "Create"} =>
        /\ out.st.elem = ElementOf(elem.kind)
        /\ out.st.id = elem.id

\* ---------------------------------------------------------------------- C28
\* C28: when parse has returned, with Ok or with an error, the writer thread
\* has ended: it receives no more and creates no more file.
C28_ReturnsAfterWriterEnded ==
    ppc \in {"ok", "err"} => wpc \in {"done", "failed"}

====
